---- MODULE Spec2Model ----
(***************************************************************************)
(* Model of the community chat synchronisation of queen-code               *)
(* (src/src/components/CommunityChat.tsx, src/src/lib/supabase.ts).        *)
(*                                                                         *)
(* Each client is one mounted CommunityChat component.  The durable store  *)
(* (table 'messages'), the realtime topic 'community-chat' and its         *)
(* presence membership are shared.  Every await of the component is a      *)
(* suspension point: the request and its response are separate steps.      *)
(*                                                                         *)
(* Spec          the message feed: history load, send, broadcast delivery  *)
(* SpecFeed      the feed of a topic other installations write to as well  *)
(* SpecChannel   the channel of a client from subscribe to its disposer    *)
(* SpecPresence  the presence membership and the online count              *)
(* SpecLaw       the two list updaters applied to arbitrary lists          *)
(*                                                                         *)
(* The radio player (src/src/stores/radioStore.ts) and the stored display  *)
(* handle (getStoredUsername) are modelled in the same module:             *)
(*                                                                         *)
(* SpecRadio     the store, the media element and the reconnect timers     *)
(* SpecRadioLive the reconnector left to itself, with fairness             *)
(* SpecVolume    the volume controls during playback and reconnect         *)
(* SpecIdentity  calls of getStoredUsername on one storage                 *)
(***************************************************************************)
EXTENDS Integers, Sequences, FiniteSets, TLC

\* ------------------------------------------------------------------ bounds
\* accepted handleSend calls in one run
MaxSends == 1
\* ids and list length of the inputs of the append law
MaxLawIds == 2
MaxLawLen == 2

\* messages other installations send on the topic in one run
MaxPeerSends == 1

\* reconnect timers pending in the runtime at one time
MaxPendingTimers == 2

\* media events queued for dispatch at one time
MaxQueue == 2

\* calls of getStoredUsername in a run
MaxCalls == 3

\* ------------------------------------------------------- program constants
\* radioStore.ts: const MAX_RECONNECT_ATTEMPTS = 5
MAX_RECONNECT_ATTEMPTS == 5

\* radioStore.ts: const BASE_RECONNECT_DELAY = 2000 (ms)
BASE_RECONNECT_DELAY == 2000

\* .limit(50) of loadRecentMessages
HistoryLimit == 50

\* ------------------------------------------------------------------ values
Clients == {"A", "B"}

\* the clients whose user writes messages during the run
Writers == {"A"}

\* users of the topic on installations that are not modelled as clients
Peers == {"carol"}

\* const [username] = useState(() => getStoredUsername())
username == ("A" :> "alice") @@ ("B" :> "bob")

\* author of the rows the store holds before any client of the run sends
OldUser == "old"

Whitespace == {" ", "\n"}

\* what the user may have typed into the textarea (sequences of characters)
Drafts == {<<>>, <<" ">>, <<"a">>, <<" ", "a", " ">>}

\* resolved values of channel.send(): RealtimeChannelSendResponse
SendResponses == {"ok", "error", "timed out"}

\* statuses the subscribe callback is invoked with
SubscribeStatuses == {"SUBSCRIBED", "CHANNEL_ERROR", "CLOSED"}

NoRow == [id |-> 0, username |-> "", message |-> <<>>, created_at |-> 0]

VARIABLES
    store,          \* table 'messages': the rows in insertion order
    bcast,          \* rows sent on the topic as 'new-message' broadcasts
    bcastFailed,    \* ids whose channel.send() resolved with a failure
    presence,       \* server side presence membership of the topic (keys)
    messages,       \* messages[c]: the MessageList (useState messages)
    inputValue,     \* inputValue[c]: the draft
    isLoading,      \* isLoading[c]: a send is in flight
    sendPc,         \* position of handleSend: idle, inserting, inserted, broadcasting
    messageText,    \* handleSend's const messageText
    sendData,       \* handleSend's data (the inserted row)
    nSends,         \* accepted handleSend calls so far (bounds the run)
    loadPc,         \* position of loadRecentMessages: requested, responding, done, failed
    histData,       \* rows of the query response in flight
    histAt,         \* length of the store when the query ran
    channelRef,     \* channelRef.current is set
    chanStatus,     \* last status given to the subscribe callback
    mounted,        \* the component is mounted (disposer not yet invoked)
    presenceState,  \* channel.presenceState() of the client (keys)
    onlineUsers,    \* useState onlineUsers
    isPlaying,      \* radio store: isPlaying
    radioLoading,   \* radio store: isLoading
    volume,         \* radio store: volume, in hundredths (0.7 is 70)
    isMuted,        \* radio store: isMuted
    activeStation,  \* radio store: activeStation
    audioElement,   \* radio store: audioElement is set (initAudio has run)
    reconnectAttempts,      \* radio store: reconnectAttempts
    reconnectTimer,         \* radio store: reconnectTimer (0 is null, else a timer id)
    wasPlayingBeforeError,  \* radio store: wasPlayingBeforeError
    elPaused,       \* media element: audio.paused
    elVolume,       \* media element: audio.volume, in hundredths
    elSrc,          \* media element: the station audio.src points to
    elNet,          \* media element: none, fetching, ready (can play), failing
                    \* (the error event is queued), failed, ended
    elEvents,       \* media element: events queued for dispatch, oldest first
    timers,         \* pending setTimeout callbacks of handleError
    playCalls,      \* playCalls[p]: the audio.play() promise awaited by caller p
    lastUserAction, \* the last operation the user called on the store
    cancelledTimer, \* that operation cleared a timer that was still pending
    retries,        \* retries scheduled since the stream last resumed (-1: the
                    \* user has acted since, or the stream never resumed)
    exhausted,      \* handleError gave up and the user has not acted since
    localStorage,   \* window.localStorage: key -> value
    returned,       \* the values getStoredUsername returned, in call order
    writes,         \* calls of localStorage.setItem so far
    lastEvent,      \* what the last step signalled: the failure it reported or the
                    \* delivery it handled, with its calls of audioRef.current.play()
    lawStep, lawMsg, lawAB, lawBA, lawRef   \* inputs and results of the append law

chatVars == <<store, bcast, bcastFailed, presence, messages, inputValue, isLoading,
              sendPc, messageText, sendData, nSends, loadPc, histData, histAt,
              channelRef, chanStatus, mounted, presenceState, onlineUsers, lastEvent>>

lawVars == <<lawStep, lawMsg, lawAB, lawBA, lawRef>>

radioVars == <<isPlaying, radioLoading, volume, isMuted, activeStation, audioElement,
               reconnectAttempts, reconnectTimer, wasPlayingBeforeError, elPaused,
               elVolume, elSrc, elNet, elEvents, timers, playCalls, lastUserAction,
               cancelledTimer, retries, exhausted>>

idVars == <<localStorage, returned, writes>>

vars == <<chatVars, lawVars, radioVars, idVars>>

\* ----------------------------------------------------------------- helpers
Min(a, b) == IF a < b THEN a ELSE b

Ids(list) == {list[i].id : i \in 1..Len(list)}

Count(list, id) == Cardinality({i \in 1..Len(list) : list[i].id = id})

Event(op, c, plays) == [op |-> op, c |-> c, plays |-> plays]

NoEvent == Event("-", "-", 0)

\* String.prototype.trim: strips leading and trailing whitespace
RECURSIVE TrimStart(_)
TrimStart(s) ==
    IF s = <<>> THEN s
    ELSE IF Head(s) \in Whitespace THEN TrimStart(Tail(s)) ELSE s

RECURSIVE TrimEnd(_)
TrimEnd(s) ==
    IF s = <<>> THEN s
    ELSE IF s[Len(s)] \in Whitespace THEN TrimEnd(SubSeq(s, 1, Len(s) - 1)) ELSE s

Trim(s) == TrimEnd(TrimStart(s))

\* ------------------------------------------------------------ durable store
\* insert({username, message}).select().single(): the store assigns the id
\* and created_at (default now(), increasing with every insert)
NewRow(rows, user, text) ==
    [id |-> Len(rows) + 1, username |-> user, message |-> text,
     created_at |-> Len(rows) + 1]

IsAscending(rows) ==
    \A i \in 1..(Len(rows) - 1) : rows[i].created_at <= rows[i + 1].created_at

RECURSIVE InsertAscending(_, _)
InsertAscending(sorted, r) ==
    IF sorted = <<>> THEN <<r>>
    ELSE IF sorted[Len(sorted)].created_at <= r.created_at THEN Append(sorted, r)
    ELSE Append(InsertAscending(SubSeq(sorted, 1, Len(sorted) - 1), r),
                sorted[Len(sorted)])

RECURSIVE SortAscending(_)
SortAscending(rows) ==
    IF rows = <<>> THEN <<>>
    ELSE InsertAscending(SortAscending(SubSeq(rows, 1, Len(rows) - 1)), rows[Len(rows)])

\* .order('created_at', { ascending: true })
OrderByCreatedAt(rows) == IF IsAscending(rows) THEN rows ELSE SortAscending(rows)

\* .limit(n): the first n rows of the ordered result
Limit(rows, n) == SubSeq(rows, 1, Min(n, Len(rows)))

\* select('*').order('created_at', { ascending: true }).limit(50)
SelectRecentMessages(rows) == Limit(OrderByCreatedAt(rows), HistoryLimit)

\* ------------------------------------------------------- the list updaters
\* mutant: the optimistic append without the check for the id
OptimisticAppendNoDedup(prev, data) == Append(prev, data)

\* setMessages((prev) => prev.find(m => m.id === data.id) ? prev : [...prev, data])
OptimisticAppend(prev, data) ==
    IF \E i \in 1..Len(prev) : prev[i].id = data.id THEN prev ELSE Append(prev, data)

\* mutant: the broadcast handler without the check for the id
BroadcastAppendNoDedup(prev, message) == Append(prev, message)

\* the updater of the broadcast handler: the list it returns
BroadcastAppend(prev, message) ==
    IF \E i \in 1..Len(prev) : prev[i].id = message.id THEN prev ELSE Append(prev, message)

\* mutant: the sound is played for a new message of any author
PlaysNotificationAnyAuthor(prev, message, c) ==
    ~(\E i \in 1..Len(prev) : prev[i].id = message.id)

\* the updater of the broadcast handler: whether it calls audioRef.current.play()
\* (audioRef.current is set by the first effect, before the channel exists)
PlaysNotification(prev, message, c) ==
    /\ ~(\E i \in 1..Len(prev) : prev[i].id = message.id)
    /\ message.username # username[c]

\* a state setter of an unmounted component changes nothing
SetState(f, c, v) == IF mounted[c] THEN [f EXCEPT ![c] = v] ELSE f

\* ------------------------------------------------------------------- Init
OldRow(i) == [id |-> i, username |-> OldUser, message |-> <<"a">>, created_at |-> i]

\* the state after both effects of the component ran: the history query is
\* requested, the channel is created and joining; the store holds n old rows
ChatInit(n) ==
    /\ store = [i \in 1..n |-> OldRow(i)]
    /\ bcast = {}
    /\ bcastFailed = {}
    /\ presence = {}
    /\ messages = [c \in Clients |-> <<>>]
    /\ inputValue = [c \in Clients |-> <<>>]
    /\ isLoading = [c \in Clients |-> FALSE]
    /\ sendPc = [c \in Clients |-> "idle"]
    /\ messageText = [c \in Clients |-> <<>>]
    /\ sendData = [c \in Clients |-> NoRow]
    /\ nSends = 0
    /\ loadPc = [c \in Clients |-> "requested"]
    /\ histData = [c \in Clients |-> <<>>]
    /\ histAt = [c \in Clients |-> 0]
    /\ channelRef = [c \in Clients |-> TRUE]
    /\ chanStatus = [c \in Clients |-> "joining"]
    /\ mounted = [c \in Clients |-> TRUE]
    /\ presenceState = [c \in Clients |-> {}]
    /\ onlineUsers = [c \in Clients |-> 0]
    /\ lastEvent = NoEvent

\* ------------------------------------------------------------ radio store
\* type RadioStation = 'code' | 'rain'
Stations == {"code", "rain"}

\* values of the volume slider, in hundredths
Volumes == {0, 30, 70}

\* callers awaiting audio.play(): the user's play() and the retry callback
Callers == {"user", "retry"}

\* the initial state of the store (create(...)), no media element yet
RadioInit ==
    /\ isPlaying = FALSE
    /\ radioLoading = FALSE
    /\ volume = 70
    /\ isMuted = FALSE
    /\ activeStation = "code"
    /\ audioElement = FALSE
    /\ reconnectAttempts = 0
    /\ reconnectTimer = 0
    /\ wasPlayingBeforeError = FALSE
    /\ elPaused = TRUE
    /\ elVolume = 100
    /\ elSrc = "-"
    /\ elNet = "none"
    /\ elEvents = <<>>
    /\ timers = {}
    /\ playCalls = [p \in Callers |-> "idle"]
    /\ lastUserAction = "none"
    /\ cancelledTimer = FALSE
    /\ retries = -1
    /\ exhausted = FALSE

\* --------------------------------------------------------------- identity
\* the key of the stored display handle
UsernameKey == "queen-code-chat-username"

\* a storage without items
EmptyStorage == [k \in {} |-> <<>>]

\* no handle stored and getStoredUsername not yet called
IdentityIdle ==
    /\ localStorage = EmptyStorage
    /\ returned = <<>>
    /\ writes = 0

LawIdle ==
    /\ lawStep = 0
    /\ lawMsg = NoRow
    /\ lawAB = <<>>
    /\ lawBA = <<>>
    /\ lawRef = <<>>

Init ==
    /\ \E n \in {0, HistoryLimit} : ChatInit(n)
    /\ LawIdle
    /\ RadioInit
    /\ IdentityIdle

\* ------------------------------------------------------------ loadHistory
\* the store answers the query of loadRecentMessages
HistoryQuery(c) ==
    /\ loadPc[c] = "requested"
    /\ histData' = [histData EXCEPT ![c] = SelectRecentMessages(store)]
    /\ histAt' = [histAt EXCEPT ![c] = Len(store)]
    /\ loadPc' = [loadPc EXCEPT ![c] = "responding"]
    /\ lastEvent' = NoEvent
    /\ UNCHANGED <<lawVars, radioVars, idVars>>
    /\ UNCHANGED <<store, bcast, bcastFailed, presence, messages, inputValue, isLoading,
                   sendPc, messageText, sendData, nSends, channelRef, chanStatus,
                   mounted, presenceState, onlineUsers>>

Reverse(rows) == [i \in 1..Len(rows) |-> rows[Len(rows) + 1 - i]]

\* mutant: the client shows the loaded rows newest first
LoadResponseNewestFirst(c) ==
    /\ loadPc[c] = "responding"
    /\ messages' = SetState(messages, c, Reverse(histData[c]))
    /\ histData' = [histData EXCEPT ![c] = <<>>]
    /\ loadPc' = [loadPc EXCEPT ![c] = "done"]
    /\ lastEvent' = NoEvent
    /\ UNCHANGED <<lawVars, radioVars, idVars>>
    /\ UNCHANGED <<store, bcast, bcastFailed, presence, inputValue, isLoading, sendPc,
                   messageText, sendData, nSends, histAt, channelRef, chanStatus,
                   mounted, presenceState, onlineUsers>>

\* loadRecentMessages resumes with { data, error: null }: setMessages(data || [])
LoadResponse(c) ==
    /\ loadPc[c] = "responding"
    /\ messages' = SetState(messages, c, histData[c])
    /\ histData' = [histData EXCEPT ![c] = <<>>]
    /\ loadPc' = [loadPc EXCEPT ![c] = "done"]
    /\ lastEvent' = NoEvent
    /\ UNCHANGED <<lawVars, radioVars, idVars>>
    /\ UNCHANGED <<store, bcast, bcastFailed, presence, inputValue, isLoading, sendPc,
                   messageText, sendData, nSends, histAt, channelRef, chanStatus,
                   mounted, presenceState, onlineUsers>>

\* mutant: a failed load clears the list and queries again
LoadErrorRetries(c) ==
    /\ loadPc[c] \in {"requested", "responding"}
    /\ messages' = SetState(messages, c, <<>>)
    /\ histData' = [histData EXCEPT ![c] = <<>>]
    /\ loadPc' = [loadPc EXCEPT ![c] = "requested"]
    /\ lastEvent' = Event("load_error", c, 0)
    /\ UNCHANGED <<lawVars, radioVars, idVars>>
    /\ UNCHANGED <<store, bcast, bcastFailed, presence, inputValue, isLoading,
                   sendPc, messageText, sendData, nSends, histAt, channelRef, chanStatus,
                   mounted, presenceState, onlineUsers>>

\* loadRecentMessages resumes with an error: logged, return
LoadError(c) ==
    /\ loadPc[c] \in {"requested", "responding"}
    /\ histData' = [histData EXCEPT ![c] = <<>>]
    /\ loadPc' = [loadPc EXCEPT ![c] = "failed"]
    /\ lastEvent' = Event("load_error", c, 0)
    /\ UNCHANGED <<lawVars, radioVars, idVars>>
    /\ UNCHANGED <<store, bcast, bcastFailed, presence, messages, inputValue, isLoading,
                   sendPc, messageText, sendData, nSends, histAt, channelRef, chanStatus,
                   mounted, presenceState, onlineUsers>>

\* ------------------------------------------------------------------- send
\* onChange of the textarea (disabled while isLoading)
Type(c, text) ==
    /\ c \in Writers
    /\ mounted[c]
    /\ ~isLoading[c]
    /\ text # inputValue[c]
    /\ inputValue' = [inputValue EXCEPT ![c] = text]
    /\ lastEvent' = NoEvent
    /\ UNCHANGED <<lawVars, radioVars, idVars>>
    /\ UNCHANGED <<store, bcast, bcastFailed, presence, messages, isLoading, sendPc,
                   messageText, sendData, nSends, loadPc, histData, histAt, channelRef,
                   chanStatus, mounted, presenceState, onlineUsers>>

\* mutant: the guard tests the draft without trimming it
SendRejectedNoTrim(c) == inputValue[c] = <<>> \/ isLoading[c]

\* if (!inputValue.trim() || isLoading) return;
SendRejected(c) == Trim(inputValue[c]) = <<>> \/ isLoading[c]

\* handleSend up to its first await: the guard, then the insert request
HandleSend(c) ==
    /\ c \in Writers
    /\ mounted[c]
    /\ IF SendRejected(c)
       THEN /\ lastEvent' = Event("send_rejected", c, 0)
            /\ UNCHANGED <<inputValue, isLoading, sendPc, messageText, nSends>>
       ELSE /\ nSends < MaxSends
            /\ messageText' = [messageText EXCEPT ![c] = Trim(inputValue[c])]
            /\ isLoading' = [isLoading EXCEPT ![c] = TRUE]
            /\ inputValue' = [inputValue EXCEPT ![c] = <<>>]
            /\ sendPc' = [sendPc EXCEPT ![c] = "inserting"]
            /\ nSends' = nSends + 1
            /\ lastEvent' = NoEvent
    /\ UNCHANGED <<lawVars, radioVars, idVars>>
    /\ UNCHANGED <<store, bcast, bcastFailed, presence, messages, sendData, loadPc,
                   histData, histAt, channelRef, chanStatus, mounted, presenceState,
                   onlineUsers>>

\* the store executes the insert and selects the new row
StoreInsert(c) ==
    /\ sendPc[c] = "inserting"
    /\ store' = Append(store, NewRow(store, username[c], messageText[c]))
    /\ sendData' = [sendData EXCEPT ![c] = NewRow(store, username[c], messageText[c])]
    /\ sendPc' = [sendPc EXCEPT ![c] = "inserted"]
    /\ lastEvent' = NoEvent
    /\ UNCHANGED <<lawVars, radioVars, idVars>>
    /\ UNCHANGED <<bcast, bcastFailed, presence, messages, inputValue, isLoading,
                   messageText, nSends, loadPc, histData, histAt, channelRef, chanStatus,
                   mounted, presenceState, onlineUsers>>

\* mutant: the broadcast is sent without the local append
InsertResponseNoAppend(c) ==
    /\ sendPc[c] = "inserted"
    /\ channelRef[c]
    /\ sendPc' = [sendPc EXCEPT ![c] = "broadcasting"]
    /\ lastEvent' = NoEvent
    /\ UNCHANGED <<lawVars, radioVars, idVars>>
    /\ UNCHANGED <<store, bcast, bcastFailed, presence, messages, inputValue, isLoading,
                   messageText, sendData, nSends, loadPc, histData, histAt, channelRef,
                   chanStatus, mounted, presenceState, onlineUsers>>

\* handleSend resumes with { data, error: null }: the optimistic append, then
\* channelRef.current.send(...) or, without a channel, the end of the call
InsertResponse(c) ==
    /\ sendPc[c] = "inserted"
    /\ messages' = SetState(messages, c, OptimisticAppend(messages[c], sendData[c]))
    /\ IF channelRef[c]
       THEN /\ sendPc' = [sendPc EXCEPT ![c] = "broadcasting"]
            /\ UNCHANGED <<isLoading, messageText, sendData>>
       ELSE /\ sendPc' = [sendPc EXCEPT ![c] = "idle"]
            /\ isLoading' = SetState(isLoading, c, FALSE)
            /\ messageText' = [messageText EXCEPT ![c] = <<>>]
            /\ sendData' = [sendData EXCEPT ![c] = NoRow]
    /\ lastEvent' = NoEvent
    /\ UNCHANGED <<lawVars, radioVars, idVars>>
    /\ UNCHANGED <<store, bcast, bcastFailed, presence, inputValue, nSends, loadPc,
                   histData, histAt, channelRef, chanStatus, mounted, presenceState,
                   onlineUsers>>

\* mutant: the catch block does not restore the input
InsertErrorNoRestore(c) ==
    /\ sendPc[c] \in {"inserting", "inserted"}
    /\ isLoading' = SetState(isLoading, c, FALSE)
    /\ sendPc' = [sendPc EXCEPT ![c] = "idle"]
    /\ messageText' = [messageText EXCEPT ![c] = <<>>]
    /\ sendData' = [sendData EXCEPT ![c] = NoRow]
    /\ lastEvent' = Event("send_failed", c, 0)
    /\ UNCHANGED <<lawVars, radioVars, idVars>>
    /\ UNCHANGED <<store, bcast, bcastFailed, presence, messages, inputValue, nSends,
                   loadPc, histData, histAt, channelRef, chanStatus, mounted,
                   presenceState, onlineUsers>>

\* handleSend resumes with an error: throw, catch (restore the input), finally
InsertError(c) ==
    /\ sendPc[c] \in {"inserting", "inserted"}
    /\ inputValue' = SetState(inputValue, c, messageText[c])
    /\ isLoading' = SetState(isLoading, c, FALSE)
    /\ sendPc' = [sendPc EXCEPT ![c] = "idle"]
    /\ messageText' = [messageText EXCEPT ![c] = <<>>]
    /\ sendData' = [sendData EXCEPT ![c] = NoRow]
    /\ lastEvent' = Event("send_failed", c, 0)
    /\ UNCHANGED <<lawVars, radioVars, idVars>>
    /\ UNCHANGED <<store, bcast, bcastFailed, presence, messages, nSends, loadPc,
                   histData, histAt, channelRef, chanStatus, mounted, presenceState,
                   onlineUsers>>

\* mutant: the flag is cleared only when the broadcast succeeded
BroadcastDoneKeepsFlag(c, response) ==
    /\ sendPc[c] = "broadcasting"
    /\ IF response = "ok"
       THEN /\ bcast' = bcast \cup {sendData[c]}
            /\ lastEvent' = NoEvent
            /\ isLoading' = SetState(isLoading, c, FALSE)
            /\ UNCHANGED bcastFailed
       ELSE /\ bcastFailed' = bcastFailed \cup {sendData[c].id}
            /\ lastEvent' = Event("broadcast_failed", c, 0)
            /\ UNCHANGED <<bcast, isLoading>>
    /\ sendPc' = [sendPc EXCEPT ![c] = "idle"]
    /\ messageText' = [messageText EXCEPT ![c] = <<>>]
    /\ sendData' = [sendData EXCEPT ![c] = NoRow]
    /\ UNCHANGED <<lawVars, radioVars, idVars>>
    /\ UNCHANGED <<store, presence, messages, inputValue, nSends, loadPc, histData,
                   histAt, channelRef, chanStatus, mounted, presenceState, onlineUsers>>

\* channel.send() resolves with its response (it resolves with 'error' or
\* 'timed out' on a failure): logged, then finally
BroadcastDone(c, response) ==
    /\ sendPc[c] = "broadcasting"
    /\ IF response = "ok"
       THEN /\ bcast' = bcast \cup {sendData[c]}
            /\ lastEvent' = NoEvent
            /\ UNCHANGED bcastFailed
       ELSE /\ bcastFailed' = bcastFailed \cup {sendData[c].id}
            /\ lastEvent' = Event("broadcast_failed", c, 0)
            /\ UNCHANGED bcast
    /\ isLoading' = SetState(isLoading, c, FALSE)
    /\ sendPc' = [sendPc EXCEPT ![c] = "idle"]
    /\ messageText' = [messageText EXCEPT ![c] = <<>>]
    /\ sendData' = [sendData EXCEPT ![c] = NoRow]
    /\ UNCHANGED <<lawVars, radioVars, idVars>>
    /\ UNCHANGED <<store, presence, messages, inputValue, nSends, loadPc, histData,
                   histAt, channelRef, chanStatus, mounted, presenceState, onlineUsers>>

\* ---------------------------------------------------------------- channel
\* .on('broadcast', { event: 'new-message' }, ...) is invoked with a row.  The
\* topic may deliver a row to every joined client, its sender included, any
\* number of times or never.
Deliver(c, m) ==
    /\ mounted[c]
    /\ chanStatus[c] = "SUBSCRIBED"
    /\ m \in bcast
    /\ messages' = [messages EXCEPT ![c] = BroadcastAppend(messages[c], m)]
    /\ lastEvent' = Event("deliver", c, IF PlaysNotification(messages[c], m, c) THEN 1 ELSE 0)
    /\ UNCHANGED <<lawVars, radioVars, idVars>>
    /\ UNCHANGED <<store, bcast, bcastFailed, presence, inputValue, isLoading, sendPc,
                   messageText, sendData, nSends, loadPc, histData, histAt, channelRef,
                   chanStatus, mounted, presenceState, onlineUsers>>

\* Object.keys(state).length
PresenceCount(state) == Cardinality(state)

\* mutant: the handler adds the identities that joined to its previous count
PresenceSyncCountsJoins(c) ==
    /\ mounted[c]
    /\ chanStatus[c] = "SUBSCRIBED"
    /\ presenceState' = [presenceState EXCEPT ![c] = presence]
    /\ onlineUsers' = [onlineUsers EXCEPT ![c] = @ + Cardinality(presence \ presenceState[c])]
    /\ lastEvent' = Event("presence_sync", c, 0)
    /\ UNCHANGED <<lawVars, radioVars, idVars>>
    /\ UNCHANGED <<store, bcast, bcastFailed, presence, messages, inputValue, isLoading,
                   sendPc, messageText, sendData, nSends, loadPc, histData, histAt,
                   channelRef, chanStatus, mounted>>

\* .on('presence', { event: 'sync' }, ...): the channel has replaced its
\* presence state by the membership of the topic, then calls the handler
PresenceSync(c) ==
    /\ mounted[c]
    /\ chanStatus[c] = "SUBSCRIBED"
    /\ presenceState' = [presenceState EXCEPT ![c] = presence]
    /\ onlineUsers' = [onlineUsers EXCEPT ![c] = PresenceCount(presence)]
    /\ lastEvent' = Event("presence_sync", c, 0)
    /\ UNCHANGED <<lawVars, radioVars, idVars>>
    /\ UNCHANGED <<store, bcast, bcastFailed, presence, messages, inputValue, isLoading,
                   sendPc, messageText, sendData, nSends, loadPc, histData, histAt,
                   channelRef, chanStatus, mounted>>

\* mutant: the callback tracks the identity whatever the status is
SubscribeStatusTracksAlways(c, status) ==
    /\ mounted[c]
    /\ status \in SubscribeStatuses \ {"CLOSED"}
    /\ status # chanStatus[c]
    /\ chanStatus' = [chanStatus EXCEPT ![c] = status]
    /\ presence' = presence \cup {username[c]}
    /\ lastEvent' = NoEvent
    /\ UNCHANGED <<lawVars, radioVars, idVars>>
    /\ UNCHANGED <<store, bcast, bcastFailed, messages, inputValue, isLoading, sendPc,
                   messageText, sendData, nSends, loadPc, histData, histAt, channelRef,
                   mounted, presenceState, onlineUsers>>

\* the subscribe callback: track() when the status is SUBSCRIBED; a session
\* that is no longer joined has left the membership of the topic
SubscribeStatus(c, status) ==
    /\ mounted[c]
    /\ status \in SubscribeStatuses \ {"CLOSED"}
    /\ status # chanStatus[c]
    /\ chanStatus' = [chanStatus EXCEPT ![c] = status]
    /\ presence' = IF status = "SUBSCRIBED" THEN presence \cup {username[c]}
                   ELSE presence \ {username[c]}
    /\ lastEvent' = NoEvent
    /\ UNCHANGED <<lawVars, radioVars, idVars>>
    /\ UNCHANGED <<store, bcast, bcastFailed, messages, inputValue, isLoading, sendPc,
                   messageText, sendData, nSends, loadPc, histData, histAt, channelRef,
                   mounted, presenceState, onlineUsers>>

\* another installation tracks its identity on the topic, or leaves it
PeerPresence(u, joins) ==
    /\ u \in Peers
    /\ (u \in presence) # joins
    /\ presence' = IF joins THEN presence \cup {u} ELSE presence \ {u}
    /\ lastEvent' = NoEvent
    /\ UNCHANGED <<lawVars, radioVars, idVars>>
    /\ UNCHANGED <<store, bcast, bcastFailed, messages, inputValue, isLoading, sendPc,
                   messageText, sendData, nSends, loadPc, histData, histAt, channelRef,
                   chanStatus, mounted, presenceState, onlineUsers>>

\* the rows of the store written by other installations
PeerRows == {i \in 1..Len(store) : store[i].username \in Peers}

\* handleSend of another installation runs to its end: the store inserts the
\* row and the topic accepts its broadcast
PeerSend(u) ==
    /\ u \in Peers
    /\ Cardinality(PeerRows) < MaxPeerSends
    /\ store' = Append(store, NewRow(store, u, <<"a">>))
    /\ bcast' = bcast \cup {NewRow(store, u, <<"a">>)}
    /\ lastEvent' = NoEvent
    /\ UNCHANGED <<lawVars, radioVars, idVars>>
    /\ UNCHANGED <<bcastFailed, presence, messages, inputValue, isLoading, sendPc,
                   messageText, sendData, nSends, loadPc, histData, histAt, channelRef,
                   chanStatus, mounted, presenceState, onlineUsers>>

\* a disposer that forgets the channel without removing it
DisposeKeepsChannel(c) ==
    /\ channelRef[c]
    /\ channelRef' = [channelRef EXCEPT ![c] = FALSE]
    /\ lastEvent' = NoEvent
    /\ UNCHANGED <<lawVars, radioVars, idVars>>
    /\ UNCHANGED <<store, bcast, bcastFailed, presence, messages, inputValue, isLoading,
                   sendPc, messageText, sendData, nSends, loadPc, histData, histAt,
                   chanStatus, mounted, presenceState, onlineUsers>>

\* the disposer returned by subscribeToMessages (the effect's cleanup)
Dispose(c) ==
    /\ mounted[c]
    /\ mounted' = [mounted EXCEPT ![c] = FALSE]
    /\ channelRef' = [channelRef EXCEPT ![c] = FALSE]
    /\ chanStatus' = [chanStatus EXCEPT ![c] = "CLOSED"]
    /\ presence' = presence \ {username[c]}
    /\ lastEvent' = NoEvent
    /\ UNCHANGED <<lawVars, radioVars, idVars>>
    /\ UNCHANGED <<store, bcast, bcastFailed, messages, inputValue, isLoading, sendPc,
                   messageText, sendData, nSends, loadPc, histData, histAt,
                   presenceState, onlineUsers>>

\* ------------------------------------------------------- specifications
\* The message feed.  Presence syncs and the loss of a joined session change
\* nothing a message handler reads (a session that is not joined only misses
\* deliveries, which are optional here), so they are left to SpecPresence.
Next ==
    \/ \E c \in Clients : HistoryQuery(c)
    \/ \E c \in Clients : LoadResponse(c)
    \/ \E c \in Clients : LoadError(c)
    \/ \E c \in Clients, text \in Drafts : Type(c, text)
    \/ \E c \in Clients : HandleSend(c)
    \/ \E c \in Clients : StoreInsert(c)
    \/ \E c \in Clients : InsertResponse(c)
    \/ \E c \in Clients : InsertError(c)
    \/ \E c \in Clients, response \in SendResponses : BroadcastDone(c, response)
    \/ \E c \in Clients, m \in bcast : Deliver(c, m)
    \/ \E c \in Clients : SubscribeStatus(c, "SUBSCRIBED")
    \/ \E c \in Clients : Dispose(c)

Spec == Init /\ [][Next]_vars

\* The presence membership of the topic and the online count of each client.
PresenceNext ==
    \/ \E c \in Clients, status \in SubscribeStatuses : SubscribeStatus(c, status)
    \/ \E u \in Peers, joins \in BOOLEAN : PeerPresence(u, joins)
    \/ \E c \in Clients : PresenceSync(c)
    \/ \E c \in Clients : Dispose(c)

SpecPresence == Init /\ [][PresenceNext]_vars

\* The channel of a client from subscribe to its disposer: sends of the
\* writers, deliveries, status changes and presence syncs.
ChannelNext ==
    \/ \E c \in Clients, text \in Drafts : Type(c, text)
    \/ \E c \in Clients : HandleSend(c)
    \/ \E c \in Clients : StoreInsert(c)
    \/ \E c \in Clients : InsertResponse(c)
    \/ \E c \in Clients, response \in SendResponses : BroadcastDone(c, response)
    \/ \E c \in Clients, m \in bcast : Deliver(c, m)
    \/ \E c \in Clients, status \in SubscribeStatuses : SubscribeStatus(c, status)
    \/ \E c \in Clients : PresenceSync(c)
    \/ \E c \in Clients : Dispose(c)

SpecChannel == Init /\ [][ChannelNext]_vars

\* The feed of a topic that other installations write to as well, over a
\* store that starts empty.
FeedNext ==
    \/ \E c \in Clients : HistoryQuery(c)
    \/ \E c \in Clients : LoadResponse(c)
    \/ \E c \in Clients : LoadError(c)
    \/ \E c \in Clients, text \in Drafts : Type(c, text)
    \/ \E c \in Clients : HandleSend(c)
    \/ \E c \in Clients : StoreInsert(c)
    \/ \E c \in Clients : InsertResponse(c)
    \/ \E c \in Clients, response \in SendResponses : BroadcastDone(c, response)
    \/ \E c \in Clients, m \in bcast : Deliver(c, m)
    \/ \E c \in Clients : SubscribeStatus(c, "SUBSCRIBED")
    \/ \E u \in Peers : PeerSend(u)

FeedInit == ChatInit(0) /\ LawIdle /\ RadioInit /\ IdentityIdle

SpecFeed == FeedInit /\ [][FeedNext]_vars

\* The append law: both updaters applied to one list in both orders, from
\* any list of rows (repeated ids included) and any row.
LawUsers == {"alice", "bob"}

LawRows == {[id |-> i, username |-> u, message |-> <<"a">>, created_at |-> i] :
               i \in 1..MaxLawIds, u \in LawUsers}

LawLists == UNION {[1..n -> LawRows] : n \in 0..MaxLawLen}

LawInit ==
    /\ ChatInit(0)
    /\ lawStep = 0
    /\ lawMsg \in LawRows
    /\ lawAB \in LawLists
    /\ lawBA = lawAB
    /\ lawRef = <<>>
    /\ RadioInit
    /\ IdentityIdle

\* the first arrival: the insert response on one side, the broadcast on the other
LawFirst ==
    /\ lawStep = 0
    /\ lawAB' = OptimisticAppend(lawAB, lawMsg)
    /\ lawBA' = BroadcastAppend(lawBA, lawMsg)
    /\ lawStep' = 1
    /\ UNCHANGED <<lawMsg, lawRef>>
    /\ UNCHANGED <<chatVars, radioVars, idVars>>

\* the second arrival: the other path on each side
LawSecond ==
    /\ lawStep = 1
    /\ lawAB' = BroadcastAppend(lawAB, lawMsg)
    /\ lawBA' = OptimisticAppend(lawBA, lawMsg)
    /\ lawRef' = BroadcastAppend(lawAB, lawMsg)
    /\ lawStep' = 2
    /\ UNCHANGED lawMsg
    /\ UNCHANGED <<chatVars, radioVars, idVars>>

\* either path once more
LawAgain(optimistic) ==
    /\ lawStep = 2
    /\ lawAB' = IF optimistic THEN OptimisticAppend(lawAB, lawMsg)
                ELSE BroadcastAppend(lawAB, lawMsg)
    /\ lawBA' = IF optimistic THEN OptimisticAppend(lawBA, lawMsg)
                ELSE BroadcastAppend(lawBA, lawMsg)
    /\ lawStep' = 3
    /\ UNCHANGED <<lawMsg, lawRef>>
    /\ UNCHANGED <<chatVars, radioVars, idVars>>

LawNext ==
    \/ LawFirst
    \/ LawSecond
    \/ \E optimistic \in BOOLEAN : LawAgain(optimistic)

SpecLaw == LawInit /\ [][LawNext]_vars

\* ============================================================ radio store
\* a volume that ignores the mute switch
EffectiveVolumeUnmuted(muted, vol) == vol

\* audio.volume as both setters and initAudio compute it
EffectiveVolume(muted, vol) == IF muted THEN 0 ELSE vol

\* BASE_RECONNECT_DELAY * Math.pow(2, state.reconnectAttempts)
ReconnectDelay(attempts) == BASE_RECONNECT_DELAY * 2^attempts

\* a retry condition without the bound on the attempts
CanRetryAlways(wasPlaying, attempts) == wasPlaying

\* handleError: wasPlaying && state.reconnectAttempts < MAX_RECONNECT_ATTEMPTS
CanRetry(wasPlaying, attempts) == wasPlaying /\ attempts < MAX_RECONNECT_ATTEMPTS

TimerIds == {t.id : t \in timers}

\* the id setTimeout returns: one that no pending timer and no field holds
NewTimerId ==
    CHOOSE i \in 1..(MaxPendingTimers + 1) :
        /\ i \notin TimerIds \cup {reconnectTimer}
        /\ \A j \in 1..(i - 1) : j \in TimerIds \cup {reconnectTimer}

\* clearReconnect: clearTimeout(timer) when a timer is recorded
ClearedTimers == {t \in timers : t.id # reconnectTimer}

\* clearReconnect: reconnectAttempts: 0 when a timer is recorded
ClearedAttempts == IF reconnectTimer # 0 THEN 0 ELSE reconnectAttempts

\* the pending play promises of the element are rejected / resolved
RejectPending(pc) == [p \in Callers |-> IF pc[p] = "pending" THEN "rejected" ELSE pc[p]]

ResolvePending(pc) == [p \in Callers |-> IF pc[p] = "pending" THEN "idle" ELSE pc[p]]

\* no rejected promise is waiting for its catch block: a reaction runs
\* before the next task of the event loop
NoMicrotask == \A p \in Callers : playCalls[p] # "rejected"

\* audio.play() may reject at once: NotAllowedError for a start without a
\* user gesture, NotSupportedError when the element holds a source error
CanRejectNow(p, net) == p = "retry" \/ net = "failed"

\* the media element load algorithm (an assignment to audio.src or load()):
\* queued events are dropped, pending play promises rejected, the element is
\* paused and the fetch of the new source starts with loadstart
ElLoad(station) ==
    /\ elPaused' = TRUE
    /\ elSrc' = station
    /\ elNet' = "fetching"
    /\ elEvents' = <<"loadstart">>
    /\ playCalls' = RejectPending(playCalls)

\* play: initAudio(), set({ isLoading: true }), await audio.play() for caller
\* p; outcome is what the element does with the call.  A call that is not
\* rejected at once unpauses the element (a play event when it was paused);
\* an element whose fetch had failed or ended tries the source again.
StorePlay(p, outcome) ==
    LET paused0 == IF audioElement THEN elPaused ELSE TRUE
        net0 == IF audioElement THEN elNet ELSE "fetching"
        events0 == IF audioElement THEN elEvents ELSE <<"loadstart">>
        restart == net0 \in {"failed", "ended"}
        events1 == events0 \o (IF paused0 THEN <<"play">> ELSE <<>>)
    IN  /\ audioElement' = TRUE
        /\ elSrc' = IF audioElement THEN elSrc ELSE activeStation
        /\ elVolume' = IF audioElement THEN elVolume ELSE EffectiveVolume(isMuted, volume)
        /\ radioLoading' = TRUE
        /\ IF outcome = "reject"
           THEN /\ CanRejectNow(p, net0)
                /\ elPaused' = paused0
                /\ elNet' = net0
                /\ elEvents' = events0
                /\ playCalls' = [playCalls EXCEPT ![p] = "rejected"]
           ELSE /\ Len(events1) <= MaxQueue
                /\ elPaused' = FALSE
                /\ elNet' = IF restart THEN "fetching" ELSE net0
                /\ elEvents' = events1
                /\ playCalls' = [playCalls EXCEPT ![p] = IF net0 = "ready" THEN "idle"
                                                        ELSE "pending"]

\* the effect of the component calls initAudio() on mount
InitAudio ==
    /\ ~audioElement
    /\ audioElement' = TRUE
    /\ elPaused' = TRUE
    /\ elSrc' = activeStation
    /\ elVolume' = EffectiveVolume(isMuted, volume)
    /\ elNet' = "fetching"
    /\ elEvents' = <<"loadstart">>
    /\ UNCHANGED <<isPlaying, radioLoading, volume, isMuted, activeStation,
                   reconnectAttempts, reconnectTimer, wasPlayingBeforeError, timers,
                   playCalls, lastUserAction, cancelledTimer, retries, exhausted>>
    /\ UNCHANGED <<chatVars, lawVars, idVars>>

SetVolume(v) ==
    /\ NoMicrotask
    /\ volume' = v
    /\ elVolume' = IF audioElement THEN EffectiveVolume(isMuted, v) ELSE elVolume
    /\ UNCHANGED <<isPlaying, radioLoading, isMuted, activeStation, audioElement,
                   reconnectAttempts, reconnectTimer, wasPlayingBeforeError, elPaused,
                   elSrc, elNet, elEvents, timers, playCalls, lastUserAction,
                   cancelledTimer, retries, exhausted>>
    /\ UNCHANGED <<chatVars, lawVars, idVars>>

SetIsMuted(muted) ==
    /\ NoMicrotask
    /\ isMuted' = muted
    /\ elVolume' = IF audioElement THEN EffectiveVolume(muted, volume) ELSE elVolume
    /\ UNCHANGED <<isPlaying, radioLoading, volume, activeStation, audioElement,
                   reconnectAttempts, reconnectTimer, wasPlayingBeforeError, elPaused,
                   elSrc, elNet, elEvents, timers, playCalls, lastUserAction,
                   cancelledTimer, retries, exhausted>>
    /\ UNCHANGED <<chatVars, lawVars, idVars>>

\* the user calls play()
UserPlay(outcome) ==
    /\ NoMicrotask
    /\ StorePlay("user", outcome)
    /\ lastUserAction' = "play"
    /\ cancelledTimer' = FALSE
    /\ retries' = -1
    /\ exhausted' = FALSE
    /\ UNCHANGED <<isPlaying, volume, isMuted, activeStation, reconnectAttempts,
                   reconnectTimer, wasPlayingBeforeError, timers>>
    /\ UNCHANGED <<chatVars, lawVars, idVars>>

\* the catch block of play(): set({ isLoading: false }); throw error.  The
\* user's caller receives the error, the retry callback logs it.
PlayCatch(p) ==
    /\ playCalls[p] = "rejected"
    /\ radioLoading' = FALSE
    /\ playCalls' = [playCalls EXCEPT ![p] = IF p = "user" THEN "failed" ELSE "idle"]
    /\ UNCHANGED <<isPlaying, volume, isMuted, activeStation, audioElement,
                   reconnectAttempts, reconnectTimer, wasPlayingBeforeError, elPaused,
                   elVolume, elSrc, elNet, elEvents, timers, lastUserAction,
                   cancelledTimer, retries, exhausted>>
    /\ UNCHANGED <<chatVars, lawVars, idVars>>

\* the user calls pause()
Pause ==
    /\ NoMicrotask
    /\ Len(elEvents) < MaxQueue
    /\ timers' = ClearedTimers
    /\ reconnectAttempts' = ClearedAttempts
    /\ reconnectTimer' = 0
    /\ IF audioElement /\ ~elPaused
       THEN /\ elPaused' = TRUE
            /\ elEvents' = Append(elEvents, "pause")
       ELSE UNCHANGED <<elPaused, elEvents>>
    /\ wasPlayingBeforeError' = FALSE
    /\ lastUserAction' = "pause"
    /\ cancelledTimer' = (reconnectTimer \in TimerIds)
    /\ retries' = -1
    /\ exhausted' = FALSE
    /\ UNCHANGED <<isPlaying, radioLoading, volume, isMuted, activeStation, audioElement,
                   elVolume, elSrc, elNet, playCalls>>
    /\ UNCHANGED <<chatVars, lawVars, idVars>>

\* the user calls stop()
Stop ==
    /\ NoMicrotask
    /\ timers' = ClearedTimers
    /\ reconnectAttempts' = ClearedAttempts
    /\ reconnectTimer' = 0
    /\ IF audioElement
       THEN /\ isPlaying' = FALSE
            /\ radioLoading' = FALSE
            /\ wasPlayingBeforeError' = FALSE
            /\ ElLoad(activeStation)
       ELSE UNCHANGED <<isPlaying, radioLoading, wasPlayingBeforeError, elPaused, elSrc,
                        elNet, elEvents, playCalls>>
    /\ lastUserAction' = "stop"
    /\ cancelledTimer' = (reconnectTimer \in TimerIds)
    /\ retries' = -1
    /\ exhausted' = FALSE
    /\ UNCHANGED <<volume, isMuted, activeStation, audioElement, elVolume>>
    /\ UNCHANGED <<chatVars, lawVars, idVars>>

\* the user calls switchStation(station)
SwitchStation(station) ==
    /\ NoMicrotask
    /\ timers' = ClearedTimers
    /\ reconnectAttempts' = ClearedAttempts
    /\ reconnectTimer' = 0
    /\ IF audioElement
       THEN /\ isPlaying' = FALSE
            /\ radioLoading' = FALSE
            /\ activeStation' = station
            /\ wasPlayingBeforeError' = FALSE
            /\ ElLoad(station)
       ELSE UNCHANGED <<isPlaying, radioLoading, activeStation, wasPlayingBeforeError,
                        elPaused, elSrc, elNet, elEvents, playCalls>>
    /\ lastUserAction' = "switch"
    /\ cancelledTimer' = (reconnectTimer \in TimerIds)
    /\ retries' = -1
    /\ exhausted' = FALSE
    /\ UNCHANGED <<volume, isMuted, audioElement, elVolume>>
    /\ UNCHANGED <<chatVars, lawVars, idVars>>

\* ------------------------------------------------------- the media element
\* the fetch of the source has buffered enough to play
ElFetchOk ==
    /\ NoMicrotask
    /\ elNet = "fetching"
    /\ Len(elEvents) < MaxQueue
    /\ elNet' = "ready"
    /\ elEvents' = Append(elEvents, "canplay")
    /\ UNCHANGED <<isPlaying, radioLoading, volume, isMuted, activeStation, audioElement,
                   reconnectAttempts, reconnectTimer, wasPlayingBeforeError, elPaused,
                   elVolume, elSrc, timers, playCalls, lastUserAction, cancelledTimer,
                   retries, exhausted>>
    /\ UNCHANGED <<chatVars, lawVars, idVars>>

\* the fetch fails, or the stream breaks after it could play: the element
\* queues the task that will record the failure and fire the error event
ElError ==
    /\ NoMicrotask
    /\ elNet \in {"fetching", "ready"}
    /\ Len(elEvents) < MaxQueue
    /\ elNet' = "failing"
    /\ elEvents' = Append(elEvents, "error")
    /\ UNCHANGED <<isPlaying, radioLoading, volume, isMuted, activeStation, audioElement,
                   reconnectAttempts, reconnectTimer, wasPlayingBeforeError, elPaused,
                   elVolume, elSrc, timers, playCalls, lastUserAction, cancelledTimer,
                   retries, exhausted>>
    /\ UNCHANGED <<chatVars, lawVars, idVars>>

\* the server closes the stream while it plays
ElEnded ==
    /\ NoMicrotask
    /\ elNet = "ready"
    /\ ~elPaused
    /\ Len(elEvents) < MaxQueue
    /\ elNet' = "ended"
    /\ elEvents' = Append(elEvents, "ended")
    /\ UNCHANGED <<isPlaying, radioLoading, volume, isMuted, activeStation, audioElement,
                   reconnectAttempts, reconnectTimer, wasPlayingBeforeError, elPaused,
                   elVolume, elSrc, timers, playCalls, lastUserAction, cancelledTimer,
                   retries, exhausted>>
    /\ UNCHANGED <<chatVars, lawVars, idVars>>

\* the next queued event of the element is ev
Dispatching(ev) ==
    /\ NoMicrotask
    /\ elEvents # <<>>
    /\ Head(elEvents) = ev
    /\ elEvents' = Tail(elEvents)

\* const handleLoadStart = () => set({ isLoading: true })
HandleLoadStart ==
    /\ Dispatching("loadstart")
    /\ radioLoading' = TRUE
    /\ UNCHANGED <<isPlaying, volume, isMuted, activeStation, audioElement,
                   reconnectAttempts, reconnectTimer, wasPlayingBeforeError, elPaused,
                   elVolume, elSrc, elNet, timers, playCalls, lastUserAction,
                   cancelledTimer, retries, exhausted>>
    /\ UNCHANGED <<chatVars, lawVars, idVars>>

\* handleCanPlay, then clearReconnect(); an element that is not paused starts
\* to play, which resolves its pending play promises
HandleCanPlay ==
    /\ Dispatching("canplay")
    /\ radioLoading' = FALSE
    /\ reconnectAttempts' = 0
    /\ wasPlayingBeforeError' = FALSE
    /\ timers' = ClearedTimers
    /\ reconnectTimer' = 0
    /\ playCalls' = IF elPaused THEN playCalls ELSE ResolvePending(playCalls)
    /\ retries' = 0
    /\ exhausted' = FALSE
    /\ UNCHANGED <<isPlaying, volume, isMuted, activeStation, audioElement, elPaused,
                   elVolume, elSrc, elNet, lastUserAction, cancelledTimer>>
    /\ UNCHANGED <<chatVars, lawVars, idVars>>

\* const handlePlay = () => set({ isPlaying: true })
HandlePlay ==
    /\ Dispatching("play")
    /\ isPlaying' = TRUE
    /\ UNCHANGED <<radioLoading, volume, isMuted, activeStation, audioElement,
                   reconnectAttempts, reconnectTimer, wasPlayingBeforeError, elPaused,
                   elVolume, elSrc, elNet, timers, playCalls, lastUserAction,
                   cancelledTimer, retries, exhausted>>
    /\ UNCHANGED <<chatVars, lawVars, idVars>>

\* const handlePause = () => set({ isPlaying: false }); the task of the pause
\* event also rejects the pending play promises
HandlePause ==
    /\ Dispatching("pause")
    /\ isPlaying' = FALSE
    /\ playCalls' = RejectPending(playCalls)
    /\ UNCHANGED <<radioLoading, volume, isMuted, activeStation, audioElement,
                   reconnectAttempts, reconnectTimer, wasPlayingBeforeError, elPaused,
                   elVolume, elSrc, elNet, timers, lastUserAction, cancelledTimer,
                   retries, exhausted>>
    /\ UNCHANGED <<chatVars, lawVars, idVars>>

\* const handleEnded = () => set({ isPlaying: false })
HandleEnded ==
    /\ Dispatching("ended")
    /\ isPlaying' = FALSE
    /\ UNCHANGED <<radioLoading, volume, isMuted, activeStation, audioElement,
                   reconnectAttempts, reconnectTimer, wasPlayingBeforeError, elPaused,
                   elVolume, elSrc, elNet, timers, playCalls, lastUserAction,
                   cancelledTimer, retries, exhausted>>
    /\ UNCHANGED <<chatVars, lawVars, idVars>>

\* handleError; the failure also rejects the pending play promises
HandleError ==
    LET wasPlaying == isPlaying \/ radioLoading
        retry == CanRetry(wasPlaying, reconnectAttempts)
    IN  /\ Dispatching("error")
        /\ retry => Cardinality(timers) < MaxPendingTimers
        /\ isPlaying' = FALSE
        /\ radioLoading' = FALSE
        /\ IF retry
           THEN /\ timers' = timers \cup {[id |-> NewTimerId,
                                           delay |-> ReconnectDelay(reconnectAttempts)]}
                /\ reconnectTimer' = NewTimerId
                /\ wasPlayingBeforeError' = wasPlaying
                /\ retries' = IF retries < 0 THEN retries
                              ELSE Min(retries + 1, MAX_RECONNECT_ATTEMPTS + 1)
                /\ UNCHANGED <<reconnectAttempts, exhausted>>
           ELSE IF reconnectAttempts >= MAX_RECONNECT_ATTEMPTS
           THEN /\ reconnectAttempts' = 0
                /\ wasPlayingBeforeError' = FALSE
                /\ exhausted' = TRUE
                /\ UNCHANGED <<timers, reconnectTimer, retries>>
           ELSE /\ wasPlayingBeforeError' = wasPlaying
                /\ UNCHANGED <<timers, reconnectTimer, reconnectAttempts, retries,
                               exhausted>>
        /\ playCalls' = RejectPending(playCalls)
        /\ elNet' = "failed"
        /\ UNCHANGED <<volume, isMuted, activeStation, audioElement, elPaused, elVolume,
                       elSrc, lastUserAction, cancelledTimer>>
        /\ UNCHANGED <<chatVars, lawVars, idVars>>

\* the callback of the reconnect timer t runs
TimerFire(t, outcome) ==
    /\ NoMicrotask
    /\ t \in timers
    /\ timers' = timers \ {t}
    /\ IF wasPlayingBeforeError
       THEN /\ reconnectAttempts' = reconnectAttempts + 1
            /\ StorePlay("retry", outcome)
       ELSE /\ outcome = "start"
            /\ UNCHANGED <<reconnectAttempts, audioElement, elSrc, elVolume,
                           radioLoading, elPaused, elNet, elEvents, playCalls>>
    /\ UNCHANGED <<isPlaying, volume, isMuted, activeStation, reconnectTimer,
                   wasPlayingBeforeError, lastUserAction, cancelledTimer, retries,
                   exhausted>>
    /\ UNCHANGED <<chatVars, lawVars, idVars>>

PlayOutcomes == {"start", "reject"}

\* The player: the user's playback operations, the media element and the
\* reconnect timers.
RadioNext ==
    \/ InitAudio
    \/ \E outcome \in PlayOutcomes : UserPlay(outcome)
    \/ \E p \in Callers : PlayCatch(p)
    \/ Pause
    \/ Stop
    \/ \E station \in Stations : SwitchStation(station)
    \/ ElFetchOk
    \/ ElError
    \/ ElEnded
    \/ HandleLoadStart
    \/ HandleCanPlay
    \/ HandlePlay
    \/ HandlePause
    \/ HandleEnded
    \/ HandleError
    \/ \E t \in timers, outcome \in PlayOutcomes : TimerFire(t, outcome)

RadioStart == ChatInit(0) /\ LawIdle /\ RadioInit /\ IdentityIdle

SpecRadio == RadioStart /\ [][RadioNext]_vars

\* the user presses play once and then leaves the player alone
UserPlayOnce(outcome) == lastUserAction = "none" /\ UserPlay(outcome)

\* the fetch of the element comes to an end: it can play or it fails
ElFetchDone == ElFetchOk \/ (elNet = "fetching" /\ ElError)

\* some pending reconnect timer expires
SomeTimerFires == \E t \in timers, outcome \in PlayOutcomes : TimerFire(t, outcome)

\* The reconnector left to itself: one play() of the user, the media element
\* and the reconnect timers.
LiveNext ==
    \/ InitAudio
    \/ \E outcome \in PlayOutcomes : UserPlayOnce(outcome)
    \/ \E p \in Callers : PlayCatch(p)
    \/ ElFetchOk
    \/ ElError
    \/ ElEnded
    \/ HandleLoadStart
    \/ HandleCanPlay
    \/ HandlePlay
    \/ HandleEnded
    \/ HandleError
    \/ \E t \in timers, outcome \in PlayOutcomes : TimerFire(t, outcome)

\* Every queued media event is dispatched, every rejected promise reaches its
\* catch block, every pending timer expires and every fetch ends; the user
\* and a stream that plays are under no obligation.
LiveFairness ==
    /\ WF_vars(HandleLoadStart)
    /\ WF_vars(HandleCanPlay)
    /\ WF_vars(HandlePlay)
    /\ WF_vars(HandleEnded)
    /\ WF_vars(HandleError)
    /\ WF_vars(\E p \in Callers : PlayCatch(p))
    /\ WF_vars(ElFetchDone)
    /\ WF_vars(SomeTimerFires)

SpecRadioLive == RadioStart /\ [][LiveNext]_vars /\ LiveFairness

\* The volume controls of the player, with the playback and the reconnect
\* they must not disturb.
VolumeNext ==
    \/ InitAudio
    \/ \E v \in Volumes : SetVolume(v)
    \/ \E muted \in BOOLEAN : SetIsMuted(muted)
    \/ \E outcome \in PlayOutcomes : UserPlay(outcome)
    \/ \E p \in Callers : PlayCatch(p)
    \/ ElFetchOk
    \/ ElError
    \/ HandleLoadStart
    \/ HandleCanPlay
    \/ HandlePlay
    \/ HandleError
    \/ \E t \in timers, outcome \in PlayOutcomes : TimerFire(t, outcome)

SpecVolume == RadioStart /\ [][VolumeNext]_vars

\* =============================================================== identity
\* some of the adjectives, nouns and numbers generateUsername draws from
Adjectives == {"Caffeinated", "Debugging", "Enlightened"}

Nouns == {"Potato", "Llama", "Taco"}

Numbers == {0, 42, 998}

\* `${adj}${noun}${num}`: the three parts in this order, never empty
GenerateUsername(adj, noun, num) == <<adj, noun, num>>

Handles == {GenerateUsername(adj, noun, num) : adj \in Adjectives, noun \in Nouns,
                                               num \in Numbers}

\* localStorage.getItem(key): the value, or null (which is falsy like the
\* empty string, and written <<>> here)
GetItem(storage, key) == IF key \in DOMAIN storage THEN storage[key] ELSE <<>>

\* localStorage.setItem(key, value)
SetItem(storage, key, value) ==
    [k \in DOMAIN storage \cup {key} |-> IF k = key THEN value ELSE storage[k]]

\* a provider that generates and stores a handle on every call
GetStoredUsernameAlwaysNew(adj, noun, num) ==
    /\ Len(returned) < MaxCalls
    /\ localStorage' = SetItem(localStorage, UsernameKey, GenerateUsername(adj, noun, num))
    /\ writes' = writes + 1
    /\ returned' = Append(returned, GenerateUsername(adj, noun, num))
    /\ UNCHANGED <<chatVars, lawVars, radioVars>>

\* getStoredUsername(); adj, noun and num are what Math.random() picks if a
\* handle is generated
GetStoredUsername(adj, noun, num) ==
    LET stored == GetItem(localStorage, UsernameKey)
        generated == GenerateUsername(adj, noun, num)
    IN  /\ Len(returned) < MaxCalls
        /\ IF stored = <<>>
           THEN /\ localStorage' = SetItem(localStorage, UsernameKey, generated)
                /\ writes' = writes + 1
                /\ returned' = Append(returned, generated)
           ELSE /\ returned' = Append(returned, stored)
                /\ UNCHANGED <<localStorage, writes>>
        /\ UNCHANGED <<chatVars, lawVars, radioVars>>

\* an installation whose storage holds no handle yet, or holds one that an
\* earlier run generated
IdentityInit ==
    /\ ChatInit(0)
    /\ LawIdle
    /\ RadioInit
    /\ localStorage \in {EmptyStorage} \cup {SetItem(EmptyStorage, UsernameKey, h) : h \in Handles}
    /\ returned = <<>>
    /\ writes = 0

IdentityNext ==
    \E adj \in Adjectives, noun \in Nouns, num \in Numbers : GetStoredUsername(adj, noun, num)

SpecIdentity == IdentityInit /\ [][IdentityNext]_vars

\* ================================================================ claims
IsBlank(s) == \A i \in 1..Len(s) : s[i] \in Whitespace

\* the n rows with the greatest creation time, in creation-time ascending order
MostRecent(rows, n) ==
    SubSeq(OrderByCreatedAt(rows), Len(rows) - Min(n, Len(rows)) + 1, Len(rows))

\* the rows the store held when the history query of c ran
StoreAtQuery(c) == SubSeq(store, 1, histAt[c])

\* the client that sent row id
Sender(id) == CHOOSE c \in Clients : username[c] = store[id].username

\* C1: in every reachable state no MessageList holds two entries with the
\* same id (sends, deliveries, repeated deliveries and own echoes interleaved).
C1_NoDuplicateIds ==
    \A c \in Clients : Cardinality(Ids(messages[c])) = Len(messages[c])

\* C1 witness: the sender has just been delivered its own message, which its
\* list holds once.
C1_Witness ==
    /\ lastEvent = Event("deliver", "A", 0)
    /\ \E m \in bcast : m.username = username["A"] /\ Count(messages["A"], m.id) = 1

\* C2: for one message and any starting list, optimistic append then broadcast
\* delivery gives the same list as broadcast delivery then optimistic append,
\* and applying either once more changes nothing.
C2_AppendOrderIrrelevant ==
    /\ lawStep >= 2 => lawAB = lawBA
    /\ lawStep = 3 => lawAB = lawRef /\ lawBA = lawRef

\* C2 witness: both orders and a repetition have been applied to a list that
\* did not hold the message, which now ends it.
C2_Witness ==
    /\ lawStep = 3
    /\ Len(lawAB) >= 2
    /\ lawAB[Len(lawAB)] = lawMsg
    /\ Count(lawAB, lawMsg.id) = 1

\* C3 (as claimed): a history load seeds the MessageList with the 50 most
\* recent rows the store held when it was queried, creation time ascending.
C3_LoadSeedsMostRecent ==
    [][\A c \in Clients :
          (LoadResponse(c) /\ mounted[c]) =>
              messages'[c] = MostRecent(StoreAtQuery(c), HistoryLimit)]_vars

\* C4: a successful history load leaves the MessageList equal to the sequence
\* the store returned for the query, in the store's order.
C4_LoadKeepsStoreOrder ==
    [][\A c \in Clients :
          (LoadResponse(c) /\ mounted[c]) =>
              /\ messages'[c] = histData[c]
              /\ messages'[c] = SelectRecentMessages(StoreAtQuery(c))]_vars

\* C4 witness: a client has loaded a history of several rows and its list is
\* the front of the store.
C4_Witness ==
    /\ loadPc["B"] = "done"
    /\ Len(messages["B"]) > 1
    /\ messages["B"] = SubSeq(store, 1, Len(messages["B"]))

\* C5: handleSend with an empty or whitespace-only draft issues no insert
\* request, sends no broadcast and leaves MessageList and draft unchanged.
C5_BlankDraftRejected ==
    [][\A c \in Clients :
          (HandleSend(c) /\ IsBlank(inputValue[c])) =>
              /\ sendPc' = sendPc
              /\ store' = store
              /\ bcast' = bcast
              /\ messages' = messages
              /\ inputValue' = inputValue
              /\ isLoading' = isLoading]_vars

\* C5 witness: handleSend has just returned at its guard on a draft of one blank.
C5_Witness ==
    /\ lastEvent = Event("send_rejected", "A", 0)
    /\ inputValue["A"] = <<" ">>
    /\ ~isLoading["A"]

\* C6: when the insert of a send fails, the text of the send (the trimmed
\* draft) is put back into the draft, no broadcast is attempted, and no step of
\* the send has changed the MessageList.
C6_InsertFailureRestoresDraft ==
    [][\A c \in Clients :
          /\ (HandleSend(c) /\ ~SendRejected(c)) =>
                 /\ messageText'[c] = Trim(inputValue[c])
                 /\ messages' = messages
          /\ (InsertError(c) /\ mounted[c]) =>
                 /\ inputValue'[c] = messageText[c]
                 /\ ~IsBlank(inputValue'[c])
                 /\ sendPc'[c] = "idle"
                 /\ bcast' = bcast
                 /\ bcastFailed' = bcastFailed
                 /\ messages' = messages]_vars

\* C6 witness: a send has just failed at the insert and the draft holds its text.
C6_Witness ==
    /\ lastEvent = Event("send_failed", "A", 0)
    /\ mounted["A"]
    /\ inputValue["A"] = <<"a">>
    /\ bcast = {}

\* C7 (as claimed): after an insert that succeeded and a broadcast that failed,
\* SendFailed is not signalled, the draft is not restored, and the sender's
\* MessageList holds the inserted message exactly once.
C7_BroadcastFailureKeepsMessage ==
    /\ \A c \in Clients :
          (lastEvent.op = "broadcast_failed" /\ lastEvent.c = c /\ mounted[c]) =>
              inputValue[c] = <<>>
    /\ \A id \in bcastFailed :
          mounted[Sender(id)] => Count(messages[Sender(id)], id) = 1

\* C8 (as claimed): if a send of A succeeded at the store and its broadcast
\* failed, A's MessageList holds the message exactly once, and so does the
\* MessageList of every other client whose history query ran after the insert.
C8_DurableMessageSeenOnce ==
    \A id \in bcastFailed :
        /\ mounted[Sender(id)] => Count(messages[Sender(id)], id) = 1
        /\ \A b \in Clients \ {Sender(id)} :
              (loadPc[b] = "done" /\ histAt[b] >= id /\ mounted[b]) =>
                  Count(messages[b], id) = 1

\* C9: after every presence sync the online count of the client is the number
\* of identities in the channel's presence snapshot, which is the membership
\* of the topic at that moment (N tracked, one left: N-1).
C9_OnlineCountIsSnapshotSize ==
    \A c \in Clients :
        (lastEvent.op = "presence_sync" /\ lastEvent.c = c) =>
            /\ presenceState[c] = presence
            /\ onlineUsers[c] = Cardinality(presenceState[c])

\* C9 witness: three identities had tracked (B still shows 3), B left, and A's
\* sync now counts 2.
C9_Witness ==
    /\ lastEvent = Event("presence_sync", "A", 0)
    /\ onlineUsers["B"] = 3
    /\ username["B"] \notin presence
    /\ onlineUsers["A"] = 2

\* C10: a broadcast delivery calls the notification sound exactly once when the
\* author is not the local identity and the id is not yet in the MessageList,
\* and not at all otherwise.
C10_NotificationOncePerNewForeignMessage ==
    [][\A c \in Clients : \A m \in bcast :
          Deliver(c, m) =>
              lastEvent'.plays =
                  IF m.username # username[c] /\ m.id \notin Ids(messages[c])
                  THEN 1 ELSE 0]_vars

\* C10 witness: a delivery has just played the sound at B, and B's list holds
\* the message.
C10_Witness ==
    /\ lastEvent = Event("deliver", "B", 1)
    /\ \E m \in bcast : m.username # username["B"] /\ Count(messages["B"], m.id) = 1

\* C11: once the disposer of a client has run (channelRef.current is null),
\* no step changes the client's MessageList or its online count, and the
\* client's identity is no longer in the presence membership of the topic.
C11_DisposedChannelIsSilent ==
    [][\A c \in Clients :
          /\ ~channelRef[c] =>
                 /\ messages'[c] = messages[c]
                 /\ onlineUsers'[c] = onlineUsers[c]
          /\ ~channelRef'[c] => username[c] \notin presence']_vars

\* C11 witness: B had counted both clients online and was disposed; after
\* that a row B never got was broadcast and delivered to A, and A's presence
\* snapshot no longer holds B.
C11_Witness ==
    /\ ~channelRef["B"]
    /\ onlineUsers["B"] = 2
    /\ lastEvent.op = "deliver" /\ lastEvent.c = "A"
    /\ \E m \in bcast : m.id \notin Ids(messages["B"])
    /\ presenceState["A"] = {username["A"]}

\* C12: in a run of transport errors that starts from a stream that could
\* play, with no operation of the user in between, at most
\* MAX_RECONNECT_ATTEMPTS retries are scheduled; once handleError has given up
\* the store is idle (not playing, not loading, counter 0) and no pending
\* timer can start a retry, until the user acts again.
C12_RetriesBoundedThenIdle ==
    /\ retries <= MAX_RECONNECT_ATTEMPTS
    /\ exhausted =>
          /\ ~isPlaying
          /\ ~radioLoading
          /\ reconnectAttempts = 0
          /\ ~wasPlayingBeforeError

\* C12 witness: five retries were scheduled and taken, the sixth error made
\* handleError give up.
C12_Witness ==
    /\ exhausted
    /\ retries = MAX_RECONNECT_ATTEMPTS
    /\ timers = {}
    /\ elNet = "failed"

\* a timer callback runs and calls play()
RetryPlays == wasPlayingBeforeError /\ \E t \in timers, o \in PlayOutcomes : TimerFire(t, o)

\* C13: after a stop() that found a reconnect timer pending, and as long as
\* the user calls nothing else, that timer is gone, the store is never
\* loading and no timer callback calls play().
C13_StopEndsReconnect ==
    [][(lastUserAction' = "stop" /\ cancelledTimer') =>
          /\ Stop => reconnectTimer \notin {t.id : t \in timers'}
          /\ ~radioLoading'
          /\ ~RetryPlays]_vars

\* C14: with the media element created, switchStation(station) leaves the
\* store with activeStation = station; after it, as long as the user calls
\* nothing else, the store is idle (not playing, not loading), the recorded
\* timer is not pending, and no timer callback calls play().
C14_SwitchEndsIdle ==
    [][/\ \A station \in Stations :
             (audioElement /\ SwitchStation(station)) => activeStation' = station
       /\ (audioElement /\ lastUserAction' = "switch") =>
             /\ ~isPlaying'
             /\ ~radioLoading'
             /\ reconnectTimer' \notin {t.id : t \in timers'}
             /\ ~RetryPlays]_vars

\* C15: when the audio.play() of a play() called by the user fails, the error
\* reaches the caller and the store is idle (not loading, not playing), and
\* the failure schedules no reconnect timer: neither the catch block nor the
\* error event that rejects the user's pending start.
C15_StartFailureReturnsToIdle ==
    [][/\ PlayCatch("user") =>
             /\ playCalls'["user"] = "failed"
             /\ ~radioLoading'
             /\ ~isPlaying'
             /\ timers' = timers
       /\ (HandleError /\ playCalls["user"] = "pending") => timers' = timers]_vars

\* C16: while the last operation the user called is pause(), stop() or
\* switchStation(), no error event schedules a reconnect timer and no timer
\* callback calls play().
C16_RetryOnlyAfterPlay ==
    [][(lastUserAction \in {"pause", "stop", "switch"}) =>
          /\ HandleError => (timers' \subseteq timers)
          /\ ~RetryPlays]_vars

\* C17: in a run of transport errors since the stream last could play, with no
\* operation of the user in between, the k-th retry is scheduled with a delay
\* of 2000 * 2^(k-1) ms (k = 1..5), and when the k-th retry is taken the
\* attempt counter becomes k.
C17_BackoffDoubles ==
    [][retries >= 0 =>
          /\ \A t \in timers' \ timers :
                /\ retries' \in 1..MAX_RECONNECT_ATTEMPTS
                /\ t.delay = BASE_RECONNECT_DELAY * 2^(retries' - 1)
          /\ \A t \in timers :
                (wasPlayingBeforeError /\ \E o \in PlayOutcomes : TimerFire(t, o)) =>
                    t.delay = BASE_RECONNECT_DELAY * 2^(reconnectAttempts' - 1)]_vars

\* C18: when the element reports that it can play, the attempt counter is 0
\* and no reconnect timer is pending any more.
C18_ResumeClearsReconnect ==
    [][HandleCanPlay => (reconnectAttempts' = 0 /\ timers' = {})]_vars

\* C19: once the media element exists its volume is 0 when the store is muted
\* and the store's volume otherwise, after every step; a call of setVolume or
\* setIsMuted changes neither isPlaying, isLoading, activeStation nor the
\* reconnect state, and does not pause the element.
C19_SettersOnlySetVolume ==
    [][/\ audioElement' => elVolume' = IF isMuted' THEN 0 ELSE volume'
       /\ ((\E v \in Volumes : SetVolume(v)) \/ (\E muted \in BOOLEAN : SetIsMuted(muted))) =>
             UNCHANGED <<isPlaying, radioLoading, activeStation, reconnectAttempts,
                         reconnectTimer, wasPlayingBeforeError, timers, elPaused>>]_vars

\* C19 witness: the store was muted at volume 30 while the stream plays: the
\* element's volume is 0 and it still plays.
C19_Witness ==
    /\ audioElement
    /\ isMuted
    /\ volume = 30
    /\ elVolume = 0
    /\ isPlaying
    /\ ~elPaused

\* C20: every call of getStoredUsername on one storage returns the same
\* handle, the one the storage holds afterwards; a handle is written only when
\* none is stored, and a stored handle is never replaced.
C20_HandleIsStable ==
    [][/\ \A i \in 1..Len(returned') :
             returned'[i] = GetItem(localStorage', UsernameKey)
       /\ UsernameKey \in DOMAIN localStorage =>
             (localStorage' = localStorage /\ writes' = writes)]_vars

\* C20 witness: the storage was empty, the first call generated and stored a
\* handle, and two more calls returned it.
C20_Witness ==
    /\ writes = 1
    /\ Len(returned) = 3
    /\ returned[3] = returned[1]
    /\ GetItem(localStorage, UsernameKey) = returned[1]

\* C21 (as claimed): in every reachable state every MessageList is ordered by
\* created_at ascending, whatever the order in which broadcasts of other
\* senders and the client's own optimistic appends arrive.
C21_ListOrderedByCreatedAt ==
    \A c \in Clients : IsAscending(messages[c])

\* C22: handleSend calls channel.send() only when its insert has returned the
\* row and in the step that appended the row to the sender's MessageList, and
\* every row broadcast on the topic is a row of the durable store.
C22_BroadcastAfterInsert ==
    [][/\ \A c \in Clients :
             (sendPc'[c] = "broadcasting" /\ sendPc[c] # "broadcasting") =>
                 /\ sendPc[c] = "inserted"
                 /\ sendData[c].id \in 1..Len(store)
                 /\ store[sendData[c].id] = sendData[c]
                 /\ sendData[c].id \in Ids(messages'[c])
       /\ \A m \in bcast' : m.id \in 1..Len(store') /\ store'[m.id] = m]_vars

\* C22 witness: A's send has ended, its row is on the topic, in the store and
\* in A's list.
C22_Witness ==
    /\ sendPc["A"] = "idle"
    /\ nSends = 1
    /\ \E m \in bcast :
          /\ m.username = username["A"]
          /\ store[m.id] = m
          /\ m.id \in Ids(messages["A"])

\* C23: the identity of a client enters the presence membership only in a
\* step in which its subscribe callback is given SUBSCRIBED, it does so in
\* every such step (the first join and every rejoin), and an identity is in
\* the membership only while its session is joined.
C23_TrackWhenSubscribed ==
    [][\A c \in Clients :
          /\ (username[c] \in presence' /\ username[c] \notin presence) =>
                 (chanStatus'[c] = "SUBSCRIBED" /\ chanStatus[c] # "SUBSCRIBED")
          /\ (chanStatus'[c] = "SUBSCRIBED" /\ chanStatus[c] # "SUBSCRIBED") =>
                 username[c] \in presence'
          /\ username[c] \in presence' => chanStatus'[c] = "SUBSCRIBED"]_vars

\* C23 witness: both sessions are joined and announced, and each client holds
\* a snapshot taken while it was joined and the other was not: one of them
\* has lost its session and joined again.
C23_Witness ==
    /\ \A c \in Clients : chanStatus[c] = "SUBSCRIBED" /\ username[c] \in presence
    /\ presenceState["A"] = {username["A"]}
    /\ presenceState["B"] = {username["B"]}

\* C24: a failed history load leaves the MessageList as it was and ends the
\* load (no query is issued again); after it, a broadcast delivered to the
\* client and the insert response of its own send still put their row into
\* the list.
C24_LoadFailureKeepsFeed ==
    [][\A c \in Clients :
          /\ lastEvent' = Event("load_error", c, 0) =>
                 (messages' = messages /\ loadPc'[c] = "failed")
          /\ loadPc[c] = "failed" =>
                 /\ loadPc'[c] = "failed"
                 /\ \A m \in bcast : Deliver(c, m) => m.id \in Ids(messages'[c])
                 /\ (InsertResponse(c) /\ mounted[c]) =>
                        sendData[c].id \in Ids(messages'[c])]_vars

\* C24 witness: B's history load failed on a store with rows; B's list holds
\* nothing but the row of A that was delivered afterwards.
C24_Witness ==
    /\ loadPc["B"] = "failed"
    /\ Len(store) > HistoryLimit
    /\ Len(messages["B"]) = 1
    /\ messages["B"][1] = store[Len(store)]
    /\ lastEvent = Event("deliver", "B", 1)

\* a user operation that has to end the reconnect: pause(), stop() or
\* switchStation()
UserCancels == Pause \/ Stop \/ \E station \in Stations : SwitchStation(station)

\* C25 (as claimed): pause(), stop() and switchStation() end with no reconnect
\* timer pending, no timer recorded and wasPlayingBeforeError false, so that
\* every timer callback that runs later was scheduled after the call.
C25_UserActionCancelsRetry ==
    [][UserCancels =>
          /\ timers' = {}
          /\ reconnectTimer' = 0
          /\ ~wasPlayingBeforeError']_vars

\* C26 (as claimed): an id that is in the MessageList of a mounted client is
\* in it after every step, whatever the interleaving of the history response,
\* deliveries and the insert response.
C26_IdsStayInList ==
    [][\A c \in Clients :
          mounted[c] => Ids(messages[c]) \subseteq Ids(messages'[c])]_vars

\* C27: while a send of a mounted client has not ended its flag isLoading is
\* set, and a handleSend called then issues no insert and changes nothing of
\* the client or the store; when a send of a mounted client has ended (after
\* the insert failed, or after the broadcast resolved with any response) the
\* flag is cleared.
C27_OneSendInFlight ==
    [][\A c \in Clients :
          /\ (mounted'[c] /\ sendPc'[c] # "idle") => isLoading'[c]
          /\ (mounted'[c] /\ sendPc'[c] = "idle") => ~isLoading'[c]
          /\ (HandleSend(c) /\ sendPc[c] # "idle") =>
                 UNCHANGED <<store, bcast, messages, inputValue, isLoading, sendPc,
                             messageText, sendData, nSends>>]_vars

\* C27 witness: handleSend has just returned at its guard while the broadcast
\* of the earlier send is in flight; the store holds the one row of that send.
C27_Witness ==
    /\ lastEvent = Event("send_rejected", "A", 0)
    /\ sendPc["A"] = "broadcasting"
    /\ isLoading["A"]
    /\ Len(store) = 1
    /\ Ids(messages["A"]) = {1}

\* C28 (as claimed): in every reachable state of the player
\* 0 <= reconnectAttempts <= MAX_RECONNECT_ATTEMPTS.
C28_AttemptsWithinBound ==
    reconnectAttempts \in 0..MAX_RECONNECT_ATTEMPTS

\* C29 (as claimed): at most one reconnect timer is pending, and a pending
\* timer is the one recorded in reconnectTimer.
C29_OnlyRecordedTimerPending ==
    /\ Cardinality(timers) <= 1
    /\ \A t \in timers : t.id = reconnectTimer

\* a reconnect is under way after the user's play(): a retry is scheduled and
\* wasPlayingBeforeError is set
Reconnecting == lastUserAction = "play" /\ wasPlayingBeforeError /\ timers # {}

\* the reconnect has ended: the stream resumed (canplay) or handleError gave
\* up; both leave the flag false and the counter at 0
ReconnectEnded == ~wasPlayingBeforeError /\ reconnectAttempts = 0

\* C30 (as claimed): when a reconnect is under way and the user does nothing
\* more, the stream eventually resumes or the attempts are exhausted (flag
\* false, counter 0).
C30_ReconnectEnds == Reconnecting ~> ReconnectEnded

====
